---------------------------- MODULE Spec2Model ----------------------------
(***************************************************************************)
(* Model of the station-score training pipeline (src/ml/train.py) and of   *)
(* the online scorer (src/ml/jobs/serve.py, with the training script it    *)
(* starts, src/ml/models/train_station_score.py).                          *)
(*                                                                         *)
(* Numbers.  Raw attribute values are integers.  Labels and scores are     *)
(* integers in tenths (5 stands for 0.5, 10 for 1.0).  Caps and the        *)
(* normalised features are exact rationals <<num, den>> with den > 0.      *)
(* A float that may be NaN is a record [nan, v]: Num(v) or NaN.  A result   *)
(* that may be None is a record [defined, num, den].                       *)
(* Python's 0-based indices are 1-based here.                              *)
(***************************************************************************)
EXTENDS Integers, Sequences, FiniteSets

(***************************************************************************)
(* Bounds of the model.                                                    *)
(***************************************************************************)
MaxRows == 3
MaxN == 5
MaxLen == 3
MaxRequests == 2

(***************************************************************************)
(* Program constants.                                                      *)
(***************************************************************************)
TestRatioPct == 40
Percentile == 95
RatingMax == 5
Threshold == 5

VARIABLES
    \* ---- training run, src/ml/train.py main() ----
    csv,         \* training_data.csv: whether it exists, and its rows
    model_json,  \* content of MODEL_PATH (model.json)
    pc,          \* position of main()
    X_raw, y,    \* loaded samples and labels
    caps,        \* normalisation caps
    X,           \* normalised samples
    split,       \* result of train_test_split
    theta,       \* result of fit_linear_model
    metrics,     \* accuracy / precision / recall of the run
    post,        \* outcome of the run-log post
    trace,       \* the steps main() has executed, in order
    \* ---- pure functions run on their own ----
    sp_n, sp_ratio, sp_idx, sp_out,   \* train_test_split
    nf_row, nf_caps, nf_out,          \* normalise_features
    cm_true, cm_pred, cm_out,         \* compute_classification_metrics
    \* ---- scoring service, src/ml/jobs/serve.py ----
    spc,            \* position of the service process
    model_pkl,      \* content of REGISTRY/model.pkl
    metrics_file,   \* content of REGISTRY/metrics.json
    features_file,  \* whether ml/artifacts/features.parquet exists
    absent_at_boot, \* whether _load found an artifact file missing
    scorer_key,     \* AUTODUN_SCORER_KEY in the environment
    app_model,      \* app.state.model
    app_metrics,    \* app.state.metrics
    startup_log,    \* the steps _load has executed, in order
    request,        \* the last scoring request
    response,       \* the response to it
    served          \* number of requests answered

trainVars == <<csv, model_json, pc, X_raw, y, caps, X, split, theta, metrics, post, trace>>
splitVars == <<sp_n, sp_ratio, sp_idx, sp_out>>
normVars == <<nf_row, nf_caps, nf_out>>
metricVars == <<cm_true, cm_pred, cm_out>>
serveVars == <<spc, model_pkl, metrics_file, features_file, absent_at_boot, scorer_key,
               app_model, app_metrics, startup_log, request, response, served>>
vars == <<trainVars, splitVars, normVars, metricVars, serveVars>>
\* What each part leaves alone.
notTrain == <<splitVars, normVars, metricVars, serveVars>>
notSplit == <<trainVars, normVars, metricVars, serveVars>>
notNorm == <<trainVars, splitVars, metricVars, serveVars>>
notMetrics == <<trainVars, splitVars, normVars, serveVars>>
notServe == <<trainVars, splitVars, normVars, metricVars>>

(***************************************************************************)
(* Arithmetic helpers.                                                     *)
(***************************************************************************)
\* Python's int(): truncation toward zero of a / b, b > 0.
Trunc(a, b) == IF a >= 0 THEN a \div b ELSE -((-a) \div b)

\* Rationals <<num, den>>, den > 0.
RLe(a, b) == a[1] * b[2] <= b[1] * a[2]
RLt(a, b) == a[1] * b[2] < b[1] * a[2]
REq(a, b) == a[1] * b[2] = b[1] * a[2]
RInt(n) == <<n, 1>>
\* a / b for b > 0.
RDiv(a, b) == <<a[1] * b[2], a[2] * b[1]>>
\* Python's max(a, b): b when b > a, else a.
RPyMax(a, b) == IF RLt(a, b) THEN b ELSE a
In01(r) == RLe(RInt(0), r) /\ RLe(r, RInt(1))

\* The sequence s sorted ascending (s a sequence of integers).
RECURSIVE Insert(_, _)
Insert(v, s) ==
    IF s = <<>> THEN <<v>>
    ELSE IF v <= Head(s) THEN <<v>> \o s
    ELSE <<Head(s)>> \o Insert(v, Tail(s))

RECURSIVE SortAsc(_)
SortAsc(s) == IF s = <<>> THEN <<>> ELSE Insert(Head(s), SortAsc(Tail(s)))

Column(M, j) == [i \in 1..Len(M) |-> M[i][j]]
Rows(M, idx) == [i \in 1..Len(idx) |-> M[idx[i]]]
Range(s) == {s[i] : i \in 1..Len(s)}
Perms(n) == {p \in [1..n -> 1..n] : \A i, j \in 1..n : p[i] = p[j] => i = j}

(***************************************************************************)
(* src/ml/train.py: feature scaling.                                       *)
(***************************************************************************)
\* np.percentile(v, q), linear interpolation between the two closest ranks:
\* position q/100 * (n-1) in the sorted values.
NpPercentile(v, q) ==
    LET s == SortAsc(v)
        n == Len(s)
        lo == (q * (n - 1)) \div 100
        fr == (q * (n - 1)) % 100
        hi == IF lo + 1 < n THEN lo + 1 ELSE lo
    IN <<100 * s[lo + 1] + fr * (s[hi + 1] - s[lo + 1]), 100>>

compute_caps(Xr) ==
    [power_kw_max |-> NpPercentile(Column(Xr, 1), Percentile),
     n_connectors_max |-> RPyMax(RInt(1), NpPercentile(Column(Xr, 2), Percentile)),
     rating_max |-> RInt(RatingMax)]

\* np.clip(r, 0, 1)
NpClip01(r) == IF RLt(r, RInt(0)) THEN RInt(0) ELSE IF RLt(RInt(1), r) THEN RInt(1) ELSE r

\* A variant that leaves usage_score unclipped.
NormaliseRow_NoUsageClip(row, c) ==
    <<NpClip01(RDiv(RInt(row[1]), RPyMax(c.power_kw_max, RInt(1)))),
      NpClip01(RDiv(RInt(row[2]), RPyMax(c.n_connectors_max, RInt(1)))),
      RInt(row[3]),
      NpClip01(RDiv(RInt(row[4]), RPyMax(c.rating_max, RInt(1)))),
      RInt(row[5]),
      RInt(row[6])>>

\* One row of normalise_features: columns 0, 1, 3 and 5 of the code are rescaled
\* and clipped, columns 2 (has_fast_dc) and 4 (has_geo) are copied.
NormaliseRow(row, c) ==
    <<NpClip01(RDiv(RInt(row[1]), RPyMax(c.power_kw_max, RInt(1)))),
      NpClip01(RDiv(RInt(row[2]), RPyMax(c.n_connectors_max, RInt(1)))),
      RInt(row[3]),
      NpClip01(RDiv(RInt(row[4]), RPyMax(c.rating_max, RInt(1)))),
      RInt(row[5]),
      NpClip01(RInt(row[6]))>>

normalise_features(Xr, c) == [i \in 1..Len(Xr) |-> NormaliseRow(Xr[i], c)]

(***************************************************************************)
(* src/ml/train.py: linear model.                                          *)
(***************************************************************************)
\* The ridge solution is a function of the rows it is fitted on; its numeric
\* value is left symbolic.
fit_linear_model(Xt, yt) == [fitted_X |-> Xt, fitted_y |-> yt]

Num(v) == [nan |-> FALSE, v |-> v]
NaN == [nan |-> TRUE, v |-> 0]
\* Float comparison a < b: false when either side is NaN.
FLt(a, b) == ~a.nan /\ ~b.nan /\ a.v < b.v
\* Python's min(a, b) and max(a, b) on floats: the second argument is taken
\* only when it compares strictly smaller (greater).
PyMin(a, b) == IF FLt(b, a) THEN b ELSE a
PyMax(a, b) == IF FLt(a, b) THEN b ELSE a

\* clamp01(x) = max(0.0, min(1.0, float(x))), in tenths.
clamp01(x) == PyMax(Num(0), PyMin(Num(10), x))

(***************************************************************************)
(* src/ml/train.py: train/test split.                                      *)
(***************************************************************************)
\* raise SystemExit("Need at least 2 samples for train/test split")
SplitExit == [exit |-> TRUE, train_idx |-> <<>>, test_idx |-> <<>>]

\* A variant whose size check is off by one.
train_test_split_off_by_one(n, ratioPct, idx) ==
    IF n < 1 THEN SplitExit
    ELSE LET s0 == Trunc(n * (100 - ratioPct), 100)
             s1 == IF s0 <= 0 THEN 1 ELSE s0
             s2 == IF s1 >= n THEN n - 1 ELSE s1
         IN [exit |-> FALSE, train_idx |-> SubSeq(idx, 1, s2), test_idx |-> SubSeq(idx, s2 + 1, n)]

\* A variant without the upper clamp of the train size.
train_test_split_no_upper(n, ratioPct, idx) ==
    IF n < 2 THEN SplitExit
    ELSE LET s0 == Trunc(n * (100 - ratioPct), 100)
             s1 == IF s0 <= 0 THEN 1 ELSE s0
         IN [exit |-> FALSE, train_idx |-> SubSeq(idx, 1, s1), test_idx |-> SubSeq(idx, s1 + 1, n)]

\* train_test_split on n rows, with test_ratio = ratioPct / 100 and idx the
\* permutation drawn from the seeded generator.
train_test_split(n, ratioPct, idx) ==
    IF n < 2 THEN SplitExit
    ELSE LET s0 == Trunc(n * (100 - ratioPct), 100)
             s1 == IF s0 <= 0 THEN 1 ELSE s0
             s2 == IF s1 >= n THEN n - 1 ELSE s1
         IN [exit |-> FALSE, train_idx |-> SubSeq(idx, 1, s2), test_idx |-> SubSeq(idx, s2 + 1, n)]

(***************************************************************************)
(* src/ml/train.py: classification metrics.                                *)
(***************************************************************************)
None == [defined |-> FALSE, num |-> 0, den |-> 1]
Defined(a, b) == [defined |-> TRUE, num |-> a, den |-> b]

\* (v >= 0.5).astype(int); a comparison with NaN is false.
Binarise(v) == IF ~v.nan /\ v.v >= Threshold THEN 1 ELSE 0

RECURSIVE CountPairs(_, _, _, _)
CountPairs(yt, yp, t, p) ==
    IF yt = <<>> THEN 0
    ELSE (IF Binarise(Head(yp)) = p /\ Binarise(Head(yt)) = t THEN 1 ELSE 0)
         + CountPairs(Tail(yt), Tail(yp), t, p)

\* A variant that reports 0 for a precision without denominator.
compute_classification_metrics_zero(yt, yp) ==
    LET tp == CountPairs(yt, yp, 1, 1)
        tn == CountPairs(yt, yp, 0, 0)
        fp == CountPairs(yt, yp, 0, 1)
        fn == CountPairs(yt, yp, 1, 0)
        total == tp + tn + fp + fn
    IN [accuracy |-> IF total = 0 THEN None ELSE Defined(tp + tn, total),
        precision |-> IF tp + fp = 0 THEN Defined(0, 1) ELSE Defined(tp, tp + fp),
        recall |-> IF tp + fn = 0 THEN None ELSE Defined(tp, tp + fn)]

\* compute_classification_metrics, followed by the conversion of lines 255-259
\* (a None stays None, a number stays the number).
compute_classification_metrics(yt, yp) ==
    LET tp == CountPairs(yt, yp, 1, 1)
        tn == CountPairs(yt, yp, 0, 0)
        fp == CountPairs(yt, yp, 0, 1)
        fn == CountPairs(yt, yp, 1, 0)
        total == tp + tn + fp + fn
    IN [accuracy |-> IF total = 0 THEN None ELSE Defined(tp + tn, total),
        precision |-> IF tp + fp = 0 THEN None ELSE Defined(tp, tp + fp),
        recall |-> IF tp + fn = 0 THEN None ELSE Defined(tp, tp + fn)]

(***************************************************************************)
(* src/ml/train.py: data loading.                                          *)
(***************************************************************************)
\* Rows of training_data.csv: three parseable rows, and one that float()
\* rejects (a KeyError or ValueError, skipped by the loader).
GoodRows ==
    {[valid |-> TRUE, x |-> <<10, 1, 0, 3, 1, 0>>, label |-> Num(2)],
     [valid |-> TRUE, x |-> <<100, 4, 1, 5, 1, 1>>, label |-> Num(9)],
     [valid |-> TRUE, x |-> <<350, 12, 1, 4, 0, 1>>, label |-> Num(5)]}
BadRow == [valid |-> FALSE, x |-> <<0, 0, 0, 0, 0, 0>>, label |-> Num(0)]
CsvRows == GoodRows \cup {BadRow}
CsvFiles ==
    {[exists |-> FALSE, rows |-> <<>>]}
    \cup {[exists |-> TRUE, rows |-> r] : r \in UNION {[1..k -> CsvRows] : k \in 0..MaxRows}}

IsValidRow(r) == r.valid

\* load_training_data: SystemExit when the file is missing or no row parses.
load_training_data(f) ==
    LET good == SelectSeq(f.rows, IsValidRow)
    IN IF ~f.exists \/ good = <<>>
       THEN [exit |-> TRUE, X |-> <<>>, y |-> <<>>]
       ELSE [exit |-> FALSE,
             X |-> [i \in 1..Len(good) |-> good[i].x],
             y |-> [i \in 1..Len(good) |-> good[i].label]]

(***************************************************************************)
(* src/ml/train.py: main().                                                *)
(***************************************************************************)
\* A variant of main() that evaluates before it writes the artifact.
MainOrder_EvaluateFirst ==
    <<"load", "caps", "normalise", "split", "fit", "evaluate", "persist", "post", "done">>

\* The statements of main(), in program order.
MainOrder ==
    <<"load", "caps", "normalise", "split", "fit", "persist", "evaluate", "post", "done">>

After(step) == MainOrder[(CHOOSE i \in 1..Len(MainOrder) : MainOrder[i] = step) + 1]

NoCaps == [power_kw_max |-> RInt(0), n_connectors_max |-> RInt(0), rating_max |-> RInt(0)]
NoTheta == [fitted_X |-> <<>>, fitted_y |-> <<>>]
NoSplit == [exit |-> FALSE, train_idx |-> <<>>, test_idx |-> <<>>]
NoMetrics == [accuracy |-> None, precision |-> None, recall |-> None]
\* model.json: absent, left by an earlier run, or written by this run.
NoFile == [origin |-> "absent", theta |-> NoTheta, caps |-> NoCaps]
PreviousFile == [origin |-> "previous", theta |-> NoTheta, caps |-> NoCaps]

\* Raw linear predictions X @ weights + bias: any float, below 0 and above 1 included.
RawScores == {Num(-3), Num(4), Num(5), Num(12), NaN}

\* A variant that computes the caps from the first row only.
CapsInput_FirstRow == SubSeq(X_raw, 1, 1)

\* The argument of compute_caps in main(): all loaded rows.
CapsInput == X_raw

\* A variant without the try/except around the post.
PostEnd_Propagate(outcome) == IF outcome = "exception" THEN "aborted" ELSE After("post")

\* Where main() continues after the run-log step; every outcome, an exception
\* of requests.post included, is caught and printed.
PostEnd(outcome) == After("post")

\* The dict main() writes to MODEL_PATH.
RunModel == [origin |-> "run", theta |-> theta, caps |-> caps]

TrainInit ==
    /\ csv \in CsvFiles
    /\ model_json \in {NoFile, PreviousFile}
    /\ pc = "load"
    /\ X_raw = <<>>
    /\ y = <<>>
    /\ caps = NoCaps
    /\ X = <<>>
    /\ split = NoSplit
    /\ theta = NoTheta
    /\ metrics = NoMetrics
    /\ post = "none"
    /\ trace = <<>>

Load ==
    /\ UNCHANGED notTrain
    /\ pc = "load"
    /\ LET r == load_training_data(csv)
       IN IF r.exit
          THEN /\ pc' = "aborted"
               /\ UNCHANGED <<X_raw, y, trace>>
          ELSE /\ X_raw' = r.X
               /\ y' = r.y
               /\ pc' = After("load")
               /\ trace' = Append(trace, "load")
    /\ UNCHANGED <<csv, model_json, caps, X, split, theta, metrics, post>>

ComputeCaps ==
    /\ UNCHANGED notTrain
    /\ pc = "caps"
    /\ caps' = compute_caps(CapsInput)
    /\ pc' = After("caps")
    /\ trace' = Append(trace, "caps")
    /\ UNCHANGED <<csv, model_json, X_raw, y, X, split, theta, metrics, post>>

Normalise ==
    /\ UNCHANGED notTrain
    /\ pc = "normalise"
    /\ X' = normalise_features(X_raw, caps)
    /\ pc' = After("normalise")
    /\ trace' = Append(trace, "normalise")
    /\ UNCHANGED <<csv, model_json, X_raw, y, caps, split, theta, metrics, post>>

\* The permutation of the generator seeded with 42 is not computed here: the
\* split is taken for every permutation of the row indices.
Split ==
    /\ UNCHANGED notTrain
    /\ pc = "split"
    /\ \E idx \in Perms(Len(X)) :
         LET r == train_test_split(Len(X), TestRatioPct, idx)
         IN IF r.exit
            THEN /\ pc' = "aborted"
                 /\ UNCHANGED <<split, trace>>
            ELSE /\ split' = r
                 /\ pc' = After("split")
                 /\ trace' = Append(trace, "split")
    /\ UNCHANGED <<csv, model_json, X_raw, y, caps, X, theta, metrics, post>>

Fit ==
    /\ UNCHANGED notTrain
    /\ pc = "fit"
    /\ theta' = fit_linear_model(Rows(X, split.train_idx), Rows(y, split.train_idx))
    /\ pc' = After("fit")
    /\ trace' = Append(trace, "fit")
    /\ UNCHANGED <<csv, model_json, X_raw, y, caps, X, split, metrics, post>>

Persist ==
    /\ UNCHANGED notTrain
    /\ pc = "persist"
    /\ model_json' = RunModel
    /\ pc' = After("persist")
    /\ trace' = Append(trace, "persist")
    /\ UNCHANGED <<csv, X_raw, y, caps, X, split, theta, metrics, post>>

Evaluate ==
    /\ UNCHANGED notTrain
    /\ pc = "evaluate"
    /\ \E raw \in [1..Len(split.test_idx) -> RawScores] :
         LET y_pred_prob == [i \in 1..Len(raw) |-> clamp01(raw[i])]
             y_true_prob == Rows(y, split.test_idx)
         IN metrics' = compute_classification_metrics(y_true_prob, y_pred_prob)
    /\ pc' = After("evaluate")
    /\ trace' = Append(trace, "evaluate")
    /\ UNCHANGED <<csv, model_json, X_raw, y, caps, X, split, theta, post>>

\* The run-log step: skipped when SUPABASE_URL or the key is unset; otherwise
\* the post succeeds, answers with a status >= 300, or raises.
PostOutcomes == {"skipped", "logged", "http_error", "exception"}

Telemetry ==
    /\ UNCHANGED notTrain
    /\ pc = "post"
    /\ \E outcome \in PostOutcomes :
         /\ post' = outcome
         /\ pc' = PostEnd(outcome)
    /\ trace' = Append(trace, "post")
    /\ UNCHANGED <<csv, model_json, X_raw, y, caps, X, split, theta, metrics>>

Next ==
    \/ Load
    \/ ComputeCaps
    \/ Normalise
    \/ Split
    \/ Fit
    \/ Persist
    \/ Evaluate
    \/ Telemetry

(***************************************************************************)
(* The pure functions of src/ml/train.py, each applied once to an input    *)
(* drawn from a bounded set.                                               *)
(***************************************************************************)
\* test_ratio values, in percent.  For these and n <= 11 the float product
\* n * (1 - test_ratio) truncates to the same integer as the exact one.
SplitRatios == {-50, 0, 25, 40, 50, 75, 100, 150}

NotCalled == [called |-> FALSE, exit |-> FALSE, train_idx |-> <<>>, test_idx |-> <<>>]

SplitInit ==
    /\ sp_n \in 1..MaxN
    /\ sp_ratio \in SplitRatios
    /\ sp_idx = <<>>
    /\ sp_out = NotCalled

CallSplit ==
    /\ UNCHANGED notSplit
    /\ ~sp_out.called
    /\ \E idx \in Perms(sp_n) :
         LET r == train_test_split(sp_n, sp_ratio, idx)
         IN /\ sp_idx' = idx
            /\ sp_out' = [called |-> TRUE, exit |-> r.exit,
                          train_idx |-> r.train_idx, test_idx |-> r.test_idx]
    /\ UNCHANGED <<sp_n, sp_ratio>>

\* Raw rows: in range, negative, far above any cap, flags outside {0, 1}.
RawRowSet ==
    {<<p, n, f, r, g, u>> : p \in {-5, 50, 1000}, n \in {-1, 4, 99}, f \in {-1, 0, 2},
                            r \in {-2, 4, 9}, g \in {0, 1, 3}, u \in {-1, 1, 3}}
CapValues == {<<-100, 1>>, <<1, 2>>, <<955, 10>>}
CapsSet ==
    {[power_kw_max |-> a, n_connectors_max |-> b, rating_max |-> c] :
        a \in CapValues, b \in CapValues, c \in CapValues \cup {RInt(RatingMax)}}

NormInit ==
    /\ nf_row \in RawRowSet
    /\ nf_caps \in CapsSet
    /\ nf_out = <<>>

CallNormalise ==
    /\ UNCHANGED notNorm
    /\ nf_out = <<>>
    /\ nf_out' = normalise_features(<<nf_row>>, nf_caps)
    /\ UNCHANGED <<nf_row, nf_caps>>

TrueValues == {Num(2), Num(5), Num(9)}
MetricsNotCalled == [called |-> FALSE, accuracy |-> None, precision |-> None, recall |-> None]

MetricsInit ==
    /\ \E k \in 0..MaxLen :
         /\ cm_true \in [1..k -> TrueValues]
         /\ cm_pred \in [1..k -> RawScores]
    /\ cm_out = MetricsNotCalled

CallMetrics ==
    /\ UNCHANGED notMetrics
    /\ ~cm_out.called
    /\ LET m == compute_classification_metrics(cm_true, cm_pred)
       IN cm_out' = [called |-> TRUE, accuracy |-> m.accuracy,
                     precision |-> m.precision, recall |-> m.recall]
    /\ UNCHANGED <<cm_true, cm_pred>>

(***************************************************************************)
(* src/ml/jobs/serve.py.                                                   *)
(***************************************************************************)
\* AUTODUN_SCORER_KEY: unset (os.getenv gives None), empty, or a secret.
ScorerKeys == {"<unset>", "", "k1"}
\* The X-Autodun-Key header: missing (None), or a string.
HeaderKeys == {"<none>", "", "k1", "k2"}
\* Python truthiness of os.getenv's result.
Truthy(e) == e \notin {"<unset>", ""}

\* check_key: TRUE when it raises HTTPException(401).
check_key(header_key) == Truthy(scorer_key) /\ header_key # scorer_key

\* Request bodies: two that satisfy StationFeatures, four that break one bound.
Payloads ==
    {[power_kw |-> 50, n_connectors |-> 4, has_fast_dc |-> 1, rating |-> 4, usage_score |-> 1, has_geo |-> 1],
     [power_kw |-> 0, n_connectors |-> 0, has_fast_dc |-> 0, rating |-> 0, usage_score |-> 0, has_geo |-> 0],
     [power_kw |-> 50, n_connectors |-> -1, has_fast_dc |-> 1, rating |-> 4, usage_score |-> 1, has_geo |-> 1],
     [power_kw |-> -7, n_connectors |-> 4, has_fast_dc |-> 1, rating |-> 4, usage_score |-> 1, has_geo |-> 1],
     [power_kw |-> 50, n_connectors |-> 4, has_fast_dc |-> 2, rating |-> 6, usage_score |-> 1, has_geo |-> 1],
     [power_kw |-> 50, n_connectors |-> 4, has_fast_dc |-> 1, rating |-> 4, usage_score |-> 2, has_geo |-> -1]}

\* The Field bounds of StationFeatures.
StationFeatures(b) ==
    /\ b.power_kw >= 0
    /\ b.n_connectors >= 0
    /\ b.has_fast_dc >= 0 /\ b.has_fast_dc <= 1
    /\ b.rating >= 0 /\ b.rating <= 5
    /\ b.usage_score >= 0 /\ b.usage_score <= 1
    /\ b.has_geo >= 0 /\ b.has_geo <= 1

\* A variant without the upper bound.
ServeClamp_NoUpper(pred) == PyMax(Num(0), pred)

\* max(0.0, min(1.0, pred)), in tenths.
ServeClamp(pred) == PyMax(Num(0), PyMin(Num(10), pred))

\* A variant that looks at metrics.json only.
NeedsTraining_MetricsOnly == metrics_file = "absent"

\* not MODEL_PATH.exists() or not METRICS_PATH.exists()
NeedsTraining == model_pkl = "absent" \/ metrics_file = "absent"

NoRequest == [payload |-> CHOOSE b \in Payloads : StationFeatures(b), token |-> "<none>"]
NoResponse == [status |-> 0, has_score |-> FALSE, score |-> Num(0), predicted |-> FALSE, raw |-> Num(0)]

ServeInit ==
    /\ spc = "boot"
    /\ model_pkl \in {"absent", "old"}
    /\ metrics_file \in {"absent", "old"}
    /\ features_file \in BOOLEAN
    /\ absent_at_boot = FALSE
    /\ scorer_key \in ScorerKeys
    /\ app_model = "unset"
    /\ app_metrics = "unset"
    /\ startup_log = <<>>
    /\ request = NoRequest
    /\ response = NoResponse
    /\ served = 0

\* _load, line 28: the existence test.
Boot ==
    /\ UNCHANGED notServe
    /\ spc = "boot"
    /\ absent_at_boot' = (model_pkl = "absent")
    /\ spc' = IF NeedsTraining THEN "build_features" ELSE "load_model"
    /\ startup_log' = Append(startup_log, "check")
    /\ UNCHANGED <<model_pkl, metrics_file, features_file, scorer_key, app_model,
                   app_metrics, request, response, served>>

\* os.system("python ml/features/build_features.py"): returns when the child has
\* exited; the exit status is not looked at.  The child writes features.parquet
\* or raises (stations.parquet without the expected columns).
BuildFeatures ==
    /\ UNCHANGED notServe
    /\ spc = "build_features"
    /\ \E ok \in BOOLEAN : features_file' = (features_file \/ ok)
    /\ spc' = "train"
    /\ startup_log' = Append(startup_log, "build_features")
    /\ UNCHANGED <<model_pkl, metrics_file, absent_at_boot, scorer_key, app_model,
                   app_metrics, request, response, served>>

\* os.system("python ml/models/train_station_score.py"): returns when the child
\* has exited.  The child exits at once without features.parquet; otherwise it
\* fits, then writes model.pkl, then metrics.json, and may die before either write.
TrainOutcomes == {"complete", "died_before_dump", "died_before_metrics"}

Train ==
    /\ UNCHANGED notServe
    /\ spc = "train"
    /\ \E outcome \in TrainOutcomes :
         IF ~features_file \/ outcome = "died_before_dump"
         THEN UNCHANGED <<model_pkl, metrics_file>>
         ELSE /\ model_pkl' = "trained"
              /\ metrics_file' = IF outcome = "complete" THEN "trained" ELSE metrics_file
    /\ spc' = "load_model"
    /\ startup_log' = Append(startup_log, "train")
    /\ UNCHANGED <<features_file, absent_at_boot, scorer_key, app_model, app_metrics,
                   request, response, served>>

\* app.state.model = joblib.load(MODEL_PATH): raises when the file is missing,
\* which ends the startup and the process.
LoadModel ==
    /\ UNCHANGED notServe
    /\ spc = "load_model"
    /\ IF model_pkl = "absent"
       THEN /\ spc' = "failed"
            /\ UNCHANGED app_model
       ELSE /\ app_model' = model_pkl
            /\ spc' = "load_metrics"
    /\ startup_log' = Append(startup_log, "load_model")
    /\ UNCHANGED <<model_pkl, metrics_file, features_file, absent_at_boot, scorer_key,
                   app_metrics, request, response, served>>

\* app.state.metrics = json.loads(METRICS_PATH.read_text())
LoadMetrics ==
    /\ UNCHANGED notServe
    /\ spc = "load_metrics"
    /\ IF metrics_file = "absent"
       THEN /\ spc' = "failed"
            /\ UNCHANGED app_metrics
       ELSE /\ app_metrics' = metrics_file
            /\ spc' = "serving"
    /\ startup_log' = Append(startup_log, "load_metrics")
    /\ UNCHANGED <<model_pkl, metrics_file, features_file, absent_at_boot, scorer_key,
                   app_model, request, response, served>>

\* POST /score.  FastAPI builds `payload` from the body against StationFeatures
\* before it calls score(): a body that fails is answered 422 and score() is not
\* entered.  In score(), check_key comes first, then model.predict, whose result
\* is any float.
Score ==
    /\ UNCHANGED notServe
    /\ spc = "serving"
    /\ served < MaxRequests
    /\ \E body \in Payloads, token \in HeaderKeys, pred \in RawScores :
         /\ request' = [payload |-> body, token |-> token]
         /\ response' =
              IF ~StationFeatures(body)
              THEN [status |-> 422, has_score |-> FALSE, score |-> Num(0),
                    predicted |-> FALSE, raw |-> Num(0)]
              ELSE IF check_key(token)
              THEN [status |-> 401, has_score |-> FALSE, score |-> Num(0),
                    predicted |-> FALSE, raw |-> Num(0)]
              ELSE [status |-> 200, has_score |-> TRUE, score |-> ServeClamp(pred),
                    predicted |-> TRUE, raw |-> pred]
    /\ served' = served + 1
    /\ UNCHANGED <<spc, model_pkl, metrics_file, features_file, absent_at_boot,
                   scorer_key, app_model, app_metrics, startup_log>>

NextServe ==
    \/ Boot
    \/ BuildFeatures
    \/ Train
    \/ LoadModel
    \/ LoadMetrics
    \/ Score

(***************************************************************************)
(* Specifications.  Each one runs one part; the variables of the other     *)
(* parts stay at their idle values.                                        *)
(***************************************************************************)
TrainIdle ==
    /\ csv = [exists |-> FALSE, rows |-> <<>>]
    /\ model_json = NoFile
    /\ pc = "idle"
    /\ X_raw = <<>>
    /\ y = <<>>
    /\ caps = NoCaps
    /\ X = <<>>
    /\ split = NoSplit
    /\ theta = NoTheta
    /\ metrics = NoMetrics
    /\ post = "none"
    /\ trace = <<>>

SplitIdle ==
    /\ sp_n = 0
    /\ sp_ratio = 0
    /\ sp_idx = <<>>
    /\ sp_out = NotCalled

NormIdle ==
    /\ nf_row = <<>>
    /\ nf_caps = NoCaps
    /\ nf_out = <<>>

MetricsIdle ==
    /\ cm_true = <<>>
    /\ cm_pred = <<>>
    /\ cm_out = MetricsNotCalled

ServeIdle ==
    /\ spc = "idle"
    /\ model_pkl = "absent"
    /\ metrics_file = "absent"
    /\ features_file = FALSE
    /\ absent_at_boot = FALSE
    /\ scorer_key = "<unset>"
    /\ app_model = "unset"
    /\ app_metrics = "unset"
    /\ startup_log = <<>>
    /\ request = NoRequest
    /\ response = NoResponse
    /\ served = 0

\* The training run.
Init == TrainInit /\ SplitIdle /\ NormIdle /\ MetricsIdle /\ ServeIdle
Spec == Init /\ [][Next]_vars

\* train_test_split alone.
InitSplit == TrainIdle /\ SplitInit /\ NormIdle /\ MetricsIdle /\ ServeIdle
NextSplit == CallSplit
SpecSplit == InitSplit /\ [][NextSplit]_vars

\* normalise_features alone.
InitNorm == TrainIdle /\ SplitIdle /\ NormInit /\ MetricsIdle /\ ServeIdle
NextNorm == CallNormalise
SpecNorm == InitNorm /\ [][NextNorm]_vars

\* compute_classification_metrics alone.
InitMetrics == TrainIdle /\ SplitIdle /\ NormIdle /\ MetricsInit /\ ServeIdle
NextMetrics == CallMetrics
SpecMetrics == InitMetrics /\ [][NextMetrics]_vars

\* The scoring service.
InitServe == TrainIdle /\ SplitIdle /\ NormIdle /\ MetricsIdle /\ ServeInit
SpecServe == InitServe /\ [][NextServe]_vars

(***************************************************************************)
(* Properties.                                                             *)
(***************************************************************************)
IsPrefix(a, b) == Len(a) <= Len(b) /\ a = SubSeq(b, 1, Len(a))
Occurrences(s, v) == Cardinality({i \in 1..Len(s) : s[i] = v})
Clamp(v, lo, hi) == IF v < lo THEN lo ELSE IF v > hi THEN hi ELSE v
\* round(a / b) for b > 0, ties to the even neighbour (Python's round).
RoundHalfEven(a, b) ==
    LET q == a \div b
        r == a % b
    IN IF 2 * r < b THEN q
       ELSE IF 2 * r > b THEN q + 1
       ELSE IF q % 2 = 0 THEN q ELSE q + 1

\* C1: every response of the scoring endpoint that carries a score carries one
\* in [0, 1] (0..10 tenths, never NaN), whatever the raw prediction was; and a
\* 200 response always carries one.
C1_ScoreInUnitInterval ==
    /\ response.has_score =>
         /\ ~response.score.nan
         /\ response.score.v >= 0
         /\ response.score.v <= 10
    /\ response.status = 200 => response.has_score

C1_Witness ==
    /\ response.status = 200
    /\ response.raw = Num(12)
    /\ response.score = Num(10)

\* C2: with a secret configured, a request whose token is missing or differs
\* from it is answered 401 and no score is computed or returned; with no secret
\* configured no request is answered 401.
C2_AuthorizationGate ==
    served > 0 =>
      /\ (Truthy(scorer_key) /\ request.token # scorer_key) =>
           /\ response.status = 401
           /\ ~response.predicted
           /\ ~response.has_score
      /\ ~Truthy(scorer_key) => response.status # 401

\* C3: the service answers scoring requests only with the artifact loaded into
\* app.state, the loaded artifact is the one on disk, and when the artifact
\* was absent at startup the training script has run to its exit before the
\* load is attempted.
C3_LoadedBeforeServing ==
    /\ (served > 0 \/ spc = "serving") =>
         /\ app_model # "unset"
         /\ app_model = model_pkl
    /\ (absent_at_boot /\ "load_model" \in Range(startup_log)) =>
         \E i, j \in 1..Len(startup_log) :
            /\ i < j
            /\ startup_log[i] = "train"
            /\ startup_log[j] = "load_model"

C3_Witness ==
    /\ absent_at_boot
    /\ served > 0
    /\ app_model = "trained"

\* C4: once the run-log step has been taken, whatever its outcome (skipped,
\* logged, status >= 300, exception), the run has ended normally and model.json
\* still holds the artifact this run wrote.
C4_PostFailureNotFatal ==
    post # "none" =>
      /\ pc = "done"
      /\ model_json = RunModel
      /\ model_json.origin = "run"

C4_Witness ==
    /\ post \in {"exception", "http_error"}
    /\ pc = "done"
    /\ model_json = RunModel

C6_CapsFromTrainOnly ==
    model_json.origin = "run" =>
      /\ model_json.caps = compute_caps(Rows(X_raw, split.train_idx))
      /\ Occurrences(trace, "caps") = 1

\* C6 as amended: the caps stored in the artifact are computed once, from all
\* loaded rows, before the split.
C6_CapsFromAllLoaded ==
    /\ Occurrences(trace, "caps") <= 1
    /\ "split" \in Range(trace) => IsPrefix(<<"load", "caps">>, trace)
    /\ model_json.origin = "run" =>
         /\ model_json.caps = compute_caps(X_raw)
         /\ Occurrences(trace, "caps") = 1

C6_Witness ==
    /\ model_json.origin = "run"
    /\ Len(split.test_idx) >= 1
    /\ model_json.caps # compute_caps(Rows(X_raw, split.train_idx))

\* C7 as stated: for n >= 2 the test partition has clamp(round(n * ratio), 1, n-1)
\* rows, the train partition the rest, and the two are disjoint, cover all
\* indices and are both non-empty.
C7_TestSizeIsRounded ==
    (sp_out.called /\ sp_n >= 2) =>
      /\ ~sp_out.exit
      /\ Len(sp_out.test_idx) = Clamp(RoundHalfEven(sp_n * sp_ratio, 100), 1, sp_n - 1)
      /\ Len(sp_out.train_idx) = sp_n - Len(sp_out.test_idx)
      /\ Range(sp_out.train_idx) \cap Range(sp_out.test_idx) = {}
      /\ Range(sp_out.train_idx) \cup Range(sp_out.test_idx) = 1..sp_n

\* C7 as amended: for n >= 2 the train partition has
\* clamp(int(n * (1 - ratio)), 1, n-1) rows, the test partition the remaining
\* ones, and the two are disjoint, cover all indices and are both non-empty.
C7_TrainSizeIsTruncated ==
    (sp_out.called /\ sp_n >= 2) =>
      /\ ~sp_out.exit
      /\ Len(sp_out.train_idx) = Clamp(Trunc(sp_n * (100 - sp_ratio), 100), 1, sp_n - 1)
      /\ Len(sp_out.test_idx) = sp_n - Len(sp_out.train_idx)
      /\ Range(sp_out.train_idx) \cap Range(sp_out.test_idx) = {}
      /\ Range(sp_out.train_idx) \cup Range(sp_out.test_idx) = 1..sp_n
      /\ Len(sp_out.train_idx) >= 1
      /\ Len(sp_out.test_idx) >= 1

C7_Witness ==
    /\ sp_out.called
    /\ sp_n = 3
    /\ sp_ratio = TestRatioPct
    /\ Len(sp_out.train_idx) = 1
    /\ Len(sp_out.test_idx) = 2

\* C8: accuracy is undefined exactly when n = 0 and is (tp+tn)/n otherwise,
\* precision is undefined exactly when tp+fp = 0 and is tp/(tp+fp) otherwise,
\* recall is undefined exactly when tp+fn = 0 and is tp/(tp+fn) otherwise; each
\* metric is undefined on its own condition only, and a defined one is in [0, 1].
IsPositive(v) == ~v.nan /\ v.v >= Threshold
CmIndices(t, p) ==
    {i \in 1..Len(cm_true) : IsPositive(cm_true[i]) = t /\ IsPositive(cm_pred[i]) = p}
MetricIs(m, a, b) ==
    IF b = 0 THEN m = None
    ELSE /\ m.defined
         /\ m.den > 0
         /\ m.num * b = a * m.den
         /\ 0 <= m.num
         /\ m.num <= m.den

C8_MetricsDefinedness ==
    cm_out.called =>
      LET tp == Cardinality(CmIndices(TRUE, TRUE))
          tn == Cardinality(CmIndices(FALSE, FALSE))
          fp == Cardinality(CmIndices(FALSE, TRUE))
          fn == Cardinality(CmIndices(TRUE, FALSE))
      IN /\ MetricIs(cm_out.accuracy, tp + tn, Len(cm_true))
         /\ MetricIs(cm_out.precision, tp, tp + fp)
         /\ MetricIs(cm_out.recall, tp, tp + fn)

C8_Witness ==
    /\ cm_out.called
    /\ Len(cm_true) = 2
    /\ cm_out.precision = None
    /\ cm_out.accuracy = Defined(1, 2)
    /\ cm_out.recall = Defined(0, 1)

\* C9 as stated: each of the 6 attributes of the normaliser's output is in
\* [0, 1], whatever the raw row and the caps.
C9_AllSixInUnitInterval ==
    nf_out # <<>> => \A j \in 1..6 : In01(nf_out[1][j])

\* C9 as amended: power_kw, n_connectors, rating and usage_score of the output
\* are in [0, 1] whatever the raw row and the caps, no division by zero occurs,
\* and has_fast_dc and has_geo are the raw values, unchanged.
C9_RescaledInUnitInterval ==
    nf_out # <<>> =>
      /\ Len(nf_out) = 1
      /\ \A j \in {1, 2, 4, 6} : nf_out[1][j][2] > 0 /\ In01(nf_out[1][j])
      /\ \A j \in {3, 5} : nf_out[1][j] = RInt(nf_row[j])

C9_Witness ==
    /\ nf_out # <<>>
    /\ nf_row[1] = 1000
    /\ nf_row[2] = -1
    /\ nf_row[6] = 3
    /\ REq(nf_out[1][1], RInt(1))
    /\ REq(nf_out[1][2], RInt(0))
    /\ REq(nf_out[1][6], RInt(1))
    /\ nf_row[3] = 2
    /\ ~In01(nf_out[1][3])

\* C10 as stated: the steps run in the order load, normalise, split, fit,
\* evaluate, persist, so the artifact is on disk only after the evaluation.
C10_PersistAfterEvaluate ==
    /\ IsPrefix(trace, <<"load", "caps", "normalise", "split", "fit", "evaluate", "persist", "post">>)
    /\ model_json.origin = "run" => "evaluate" \in Range(trace)

\* C10 as amended: the steps run in the order load, normalise, split, fit,
\* persist, evaluate: the artifact is on disk exactly from the persist step
\* on, which follows the fit and precedes the evaluation and the run-log post.
C10_PersistBeforeEvaluate ==
    /\ IsPrefix(trace, <<"load", "caps", "normalise", "split", "fit", "persist", "evaluate", "post">>)
    /\ model_json.origin = "run" <=> "persist" \in Range(trace)
    /\ "evaluate" \in Range(trace) => model_json.origin = "run"

C10_Witness ==
    /\ pc = "done"
    /\ trace = <<"load", "caps", "normalise", "split", "fit", "persist", "evaluate", "post">>
    /\ model_json.origin = "run"

=============================================================================
